---- MODULE Spec2Model ----
(***************************************************************************)
(* Model of src/src/App.tsx: the before/after capture state machine, the   *)
(* 300 ms scoring interval, the asynchronous scoring cycles, the model     *)
(* load and the camera (re)acquisition of the App component.               *)
(*                                                                         *)
(* Frames are numbered 1..NumFrames; 0 stands for null.  A similarity      *)
(* score is kept exactly, as the record [sgn, p, q] that stands for the    *)
(* real number sgn * sqrt(p / q) with p / q in lowest terms; the record    *)
(* with q = 0 stands for NaN (the quotient 0 / 0).                         *)
(***************************************************************************)
EXTENDS Integers, Sequences, FiniteSets, TLC

\* ---------------------------------------------------------------- bounds
NumFrames == 2        \* distinct frame contents the live stream can show
MaxCycles == 2        \* scoring cycles in flight at once
MaxPending == 2       \* getUserMedia calls in flight at once

Frames == 1..NumFrames
Null == 0

\* ------------------------------------------------------- similarity scores
RECURSIVE Gcd(_, _)
Gcd(a, b) == IF b = 0 THEN a ELSE Gcd(b, a % b)

Sign(x) == IF x > 0 THEN 1 ELSE IF x < 0 THEN -1 ELSE 0

NaN == [sgn |-> 0, p |-> 0, q |-> 0]
Zero == [sgn |-> 0, p |-> 0, q |-> 1]

IsNaN(s) == s.q = 0

\* The quotient num / sqrt(den2), den2 >= 0, in canonical form.
Quotient(num, den2) ==
    IF den2 = 0 THEN NaN
    ELSE IF num = 0 THEN Zero
    ELSE LET g == Gcd(num * num, den2)
         IN [sgn |-> Sign(num), p |-> (num * num) \div g, q |-> den2 \div g]

RECURSIVE Dot(_, _)
Dot(a, b) == IF a = << >> THEN 0 ELSE Head(a) * Head(b) + Dot(Tail(a), Tail(b))

\* dotProduct / (magnitudeA * magnitudeB)
cosineSimilarity(a, b) == Quotient(Dot(a, b), Dot(a, a) * Dot(b, b))

\* s <= n / d for a score s and a positive rational n / d, as JavaScript
\* compares numbers: every comparison with NaN is false.
ScoreLeq(s, n, d) ==
    /\ ~IsNaN(s)
    /\ \/ s.sgn <= 0
       \/ s.p * d * d <= n * n * s.q

\* The embedding the network computes for a frame.
EmbeddingTable == << <<1, 0>>, <<0, 0>>, <<3, 4>>, <<0, 1>>, <<1, 1>> >>
EmbeddingOf(f) == IF f <= Len(EmbeddingTable) THEN EmbeddingTable[f] ELSE <<1, f>>

\* The background colour of the similarity indicator.
BandColor(s) ==
    IF ScoreLeq(s, 1, 2) THEN "#d93025"
    ELSE IF ScoreLeq(s, 7, 10) THEN "#f9ab00"
    ELSE "#1e8e3e"

\* ------------------------------------------------------------------ state
VARIABLES
    videoRef,            \* TRUE once the <video> element is rendered
    srcObject,           \* facing mode of the stream attached to it, or "none"
    model,               \* "unset" or "loaded"
    beforeImageCapture,  \* frame, or Null
    afterImageCapture,   \* frame, or Null
    currentFacingMode,   \* "user" or "environment"
    similarity,          \* score
    errorMessage,        \* "" or an error text
    isMobileDevice,
    showLiveFeed,
    isModelLoading,
    userAgentMobile,     \* what isMobile() answers on this device
    loadPending,         \* TRUE while tf.loadLayersModel is awaited
    cameraPending,       \* facing modes of the getUserMedia calls awaited
    intervals,           \* ids of the live setInterval timers
    cleanupId,           \* id the effect's onCleanup will clear, or 0
    lastIntervalId,      \* id issued by the last setInterval call
    cycles,              \* scoring cycles awaiting an embedding, in start order
    lastOp               \* history: the event that produced this state

vars == << videoRef, srcObject, model, beforeImageCapture, afterImageCapture,
           currentFacingMode, similarity, errorMessage, isMobileDevice,
           showLiveFeed, isModelLoading, userAgentMobile, loadPending,
           cameraPending, intervals, cleanupId, lastIntervalId, cycles, lastOp >>

LoadError == "Error loading model: "
CameraError == "Error accessing camera: "

\* The part of the state the capture handlers and the scheduling effect
\* read and write, as one record.
Store ==
    [ before |-> beforeImageCapture, after |-> afterImageCapture,
      similarity |-> similarity, showLiveFeed |-> showLiveFeed,
      intervals |-> intervals, cleanupId |-> cleanupId,
      lastIntervalId |-> lastIntervalId, cycles |-> cycles ]

Commit(S) ==
    /\ beforeImageCapture' = S.before
    /\ afterImageCapture' = S.after
    /\ similarity' = S.similarity
    /\ showLiveFeed' = S.showLiveFeed
    /\ intervals' = S.intervals
    /\ cleanupId' = S.cleanupId
    /\ lastIntervalId' = S.lastIntervalId
    /\ cycles' = S.cycles

\* ------------------------------------------------- the scheduling effect
\* The effect with a flag check in place of the cleanup: a run stops
\* creating intervals but clears none.
IntervalEffectNoCleanup(S) ==
    LET id == IF S.lastIntervalId = 1 THEN 2 ELSE 1
    IN IF S.before # Null /\ S.showLiveFeed
       THEN [S EXCEPT !.intervals = @ \cup {id}, !.cleanupId = id,
                      !.lastIntervalId = id]
       ELSE S

\* The effect without its onCleanup call: the interval it creates is never
\* registered for clearing.
IntervalEffectNoOnCleanup(S) ==
    LET cleaned == [S EXCEPT !.intervals = @ \ {S.cleanupId}, !.cleanupId = 0]
        id == IF S.lastIntervalId = 1 THEN 2 ELSE 1
    IN IF cleaned.before # Null /\ cleaned.showLiveFeed
       THEN [cleaned EXCEPT !.intervals = @ \cup {id}, !.lastIntervalId = id]
       ELSE cleaned

\* One run of the effect after a signal it reads has changed: the cleanup
\* registered by the previous run first, then the body.  setInterval never
\* returns the id it returned last; the ids 1 and 2, issued in turn, keep
\* that much of it.
IntervalEffect(S) ==
    LET cleaned == [S EXCEPT !.intervals = @ \ {S.cleanupId}, !.cleanupId = 0]
        id == IF S.lastIntervalId = 1 THEN 2 ELSE 1
    IN IF cleaned.before # Null /\ cleaned.showLiveFeed
       THEN [cleaned EXCEPT !.intervals = @ \cup {id}, !.cleanupId = id,
                            !.lastIntervalId = id]
       ELSE cleaned

\* A signal notifies its observers only when the value written differs
\* (===) from the one held; a freshly captured canvas is always a new object.
setBeforeImageCapture(S, v) ==
    IF v = Null /\ S.before = Null THEN S
    ELSE IntervalEffect([S EXCEPT !.before = v])

setAfterImageCapture(S, v) == [S EXCEPT !.after = v]

setSimilarity(S, v) == [S EXCEPT !.similarity = v]

setShowLiveFeed(S, v) ==
    IF S.showLiveFeed = v THEN S
    ELSE IntervalEffect([S EXCEPT !.showLiveFeed = v])

\* ----------------------------------------------------------- the handlers
\* vref: whether videoRef is set; f: the frame the video shows right now.
\* A canvas is returned whenever the element exists, stream attached or not.
captureImage(vref, f) == IF ~vref THEN Null ELSE f

\* The synchronous part of updateSimilarityScore, up to its first await.
\* A cycle in flight holds its two frames, the await it is suspended at
\* (1: the before embedding, 2: the current embedding) and, as history,
\* whether an after frame was stored and whether the live feed was shown
\* when it started.
updateSimilarityScore(S, vref, f) ==
    LET before == S.before
        current == captureImage(vref, f)
    IN IF before = Null \/ current = Null THEN S
       ELSE [S EXCEPT !.cycles =
                Append(@, [before |-> before, current |-> current, stage |-> 1,
                           afterStored |-> S.after # Null,
                           liveFeed |-> S.showLiveFeed])]

captureBefore(S, vref, f) ==
    LET captured == captureImage(vref, f)
    IN IF captured # Null THEN setBeforeImageCapture(S, captured) ELSE S

\* captureAfter without the test for a before frame
captureAfterNoBeforeTest(S, vref, f, mdl) ==
    IF mdl = "unset" THEN S
    ELSE LET captured == captureImage(vref, f)
         IN IF captured # Null
            THEN setShowLiveFeed(
                   updateSimilarityScore(setAfterImageCapture(S, captured), vref, f),
                   FALSE)
            ELSE S

\* captureAfter hiding the live feed before it starts the scoring cycle
captureAfterHidesFirst(S, vref, f, mdl) ==
    IF S.before = Null \/ mdl = "unset" THEN S
    ELSE LET captured == captureImage(vref, f)
         IN IF captured # Null
            THEN updateSimilarityScore(
                   setShowLiveFeed(setAfterImageCapture(S, captured), FALSE),
                   vref, f)
            ELSE S

\* captureAfter refusing while a scoring cycle is in flight
captureAfterWhenIdle(S, vref, f, mdl) ==
    IF S.before = Null \/ mdl = "unset" \/ S.cycles # << >> THEN S
    ELSE LET captured == captureImage(vref, f)
         IN IF captured # Null
            THEN setShowLiveFeed(
                   updateSimilarityScore(setAfterImageCapture(S, captured), vref, f),
                   FALSE)
            ELSE S

captureAfter(S, vref, f, mdl) ==
    IF S.before = Null \/ mdl = "unset" THEN S
    ELSE LET captured == captureImage(vref, f)
         IN IF captured # Null
            THEN setShowLiveFeed(
                   updateSimilarityScore(setAfterImageCapture(S, captured), vref, f),
                   FALSE)
            ELSE S

\* reset without setAfterImageCapture(null)
resetKeepsAfter(S) ==
    setShowLiveFeed(setSimilarity(setBeforeImageCapture(S, Null), Zero), TRUE)

\* reset without setSimilarity(0)
resetKeepsScore(S) ==
    setShowLiveFeed(setAfterImageCapture(setBeforeImageCapture(S, Null), Null), TRUE)

reset(S) ==
    setShowLiveFeed(
      setSimilarity(
        setAfterImageCapture(setBeforeImageCapture(S, Null), Null),
        Zero),
      TRUE)

\* The disabled attributes of the buttons.
CaptureBeforeDisabled(S, loading) == S.before # Null \/ loading
CaptureAfterDisabled(S, loading) == S.before = Null \/ S.after # Null \/ loading
ResetDisabled(S, loading) == S.before = Null \/ loading

\* What a click on a button does: nothing while the button is disabled
\* (or not rendered, during the model load), the handler otherwise.
\* the Capture Before button without its disabled attribute
onClickCaptureBeforeEnabled(S, loading, vref, f) == captureBefore(S, vref, f)

onClickCaptureBefore(S, loading, vref, f) ==
    IF CaptureBeforeDisabled(S, loading) THEN S ELSE captureBefore(S, vref, f)

\* the Capture After button without its disabled attribute
onClickCaptureAfterEnabled(S, loading, vref, f, mdl) == captureAfter(S, vref, f, mdl)

onClickCaptureAfter(S, loading, vref, f, mdl) ==
    IF CaptureAfterDisabled(S, loading) THEN S ELSE captureAfter(S, vref, f, mdl)

\* s without its i-th element
RemoveAt(s, i) == SubSeq(s, 1, i - 1) \o SubSeq(s, i + 1, Len(s))

\* cycles serialized by start order: only the newest cycle in flight may
\* write its score
embeddingResolvedNewestWins(S, i) ==
    LET c == S.cycles[i]
    IN IF c.stage = 1
       THEN [S EXCEPT !.cycles[i].stage = 2]
       ELSE IF i = Len(S.cycles)
            THEN setSimilarity([S EXCEPT !.cycles = RemoveAt(@, i)],
                               cosineSimilarity(EmbeddingOf(c.before),
                                                EmbeddingOf(c.current)))
            ELSE [S EXCEPT !.cycles = RemoveAt(@, i)]

\* updateSimilarityScore resumed: the embedding cycle i awaits has resolved.
embeddingResolved(S, i) ==
    LET c == S.cycles[i]
    IN IF c.stage = 1
       THEN [S EXCEPT !.cycles[i].stage = 2]
       ELSE setSimilarity([S EXCEPT !.cycles = RemoveAt(@, i)],
                          cosineSimilarity(EmbeddingOf(c.before), EmbeddingOf(c.current)))

\* a rejected embedding handled by clearing the score
embeddingRejectedClearsScore(S, i) ==
    setSimilarity([S EXCEPT !.cycles = RemoveAt(@, i)], Zero)

\* The embedding cycle i awaits was rejected: updateSimilarityScore has no
\* catch, its promise is rejected and nobody observes it.
embeddingRejected(S, i) == [S EXCEPT !.cycles = RemoveAt(@, i)]

\* a toggle whose two branches agree
toggleFacingModeStuck(prev) == "environment"

\* setCurrentFacingMode(prev => ...)
toggleFacingMode(prev) == IF prev = "user" THEN "environment" ELSE "user"

\* ---------------------------------------------------------------- actions
\* The state once onMount has run: both tasks started, nothing resolved.
Init ==
    /\ videoRef = FALSE
    /\ srcObject = "none"
    /\ model = "unset"
    /\ beforeImageCapture = Null
    /\ afterImageCapture = Null
    /\ currentFacingMode = "user"
    /\ similarity = Zero
    /\ errorMessage = ""
    /\ isMobileDevice = FALSE
    /\ showLiveFeed = TRUE
    /\ isModelLoading = TRUE
    /\ userAgentMobile \in BOOLEAN
    /\ loadPending = TRUE
    /\ cameraPending = << "user" >>
    /\ intervals = {}
    /\ cleanupId = 0
    /\ lastIntervalId = 0
    /\ cycles = << >>
    /\ lastOp = "mount"

captureVars == << beforeImageCapture, afterImageCapture, similarity, showLiveFeed,
                  intervals, cleanupId, lastIntervalId, cycles >>
loadVars == << videoRef, model, isModelLoading, loadPending >>
cameraVars == << srcObject, currentFacingMode, isMobileDevice, cameraPending >>

\* loadModel after its await, on the record of what it writes.
LoadState == [model |-> model, isModelLoading |-> isModelLoading,
              errorMessage |-> errorMessage]

loadModelResolved(L) == [L EXCEPT !.model = "loaded", !.isModelLoading = FALSE]

\* a catch branch that reports the error and leaves the loading flag set
loadModelRejectedKeepsLoading(L) == [L EXCEPT !.errorMessage = LoadError]

\* the catch branch
loadModelRejected(L) ==
    [L EXCEPT !.errorMessage = LoadError, !.isModelLoading = FALSE]

\* Dropping the loading flag renders the video element and the buttons,
\* which sets videoRef.
CommitLoad(L) ==
    /\ model' = L.model
    /\ isModelLoading' = L.isModelLoading
    /\ errorMessage' = L.errorMessage
    /\ videoRef' = (videoRef \/ ~L.isModelLoading)

LoadModelResolve ==
    /\ loadPending
    /\ loadPending' = FALSE
    /\ CommitLoad(loadModelResolved(LoadState))
    /\ lastOp' = "loadModelResolved"
    /\ UNCHANGED << captureVars, cameraVars, userAgentMobile >>

LoadModelReject ==
    /\ loadPending
    /\ loadPending' = FALSE
    /\ CommitLoad(loadModelRejected(LoadState))
    /\ lastOp' = "loadModelRejected"
    /\ UNCHANGED << captureVars, cameraVars, userAgentMobile >>

\* setupCamera, after the await: getUserMedia call i has resolved.
GetUserMediaResolve(i) ==
    /\ i \in 1..Len(cameraPending)
    /\ cameraPending' = RemoveAt(cameraPending, i)
    /\ srcObject' = IF videoRef THEN cameraPending[i] ELSE srcObject
    /\ isMobileDevice' = userAgentMobile
    /\ lastOp' = "getUserMediaResolved"
    /\ UNCHANGED << captureVars, loadVars, currentFacingMode, errorMessage,
                    userAgentMobile >>

\* setupCamera, the catch branch.
GetUserMediaReject(i) ==
    /\ i \in 1..Len(cameraPending)
    /\ cameraPending' = RemoveAt(cameraPending, i)
    /\ errorMessage' = CameraError
    /\ lastOp' = "getUserMediaRejected"
    /\ UNCHANGED << captureVars, loadVars, srcObject, currentFacingMode,
                    isMobileDevice, userAgentMobile >>

\* The Switch Camera button is rendered for mobile devices once the model
\* load has ended.
ClickSwitchCamera ==
    /\ ~isModelLoading
    /\ isMobileDevice
    /\ Len(cameraPending) < MaxPending
    /\ currentFacingMode' = toggleFacingMode(currentFacingMode)
    /\ cameraPending' = Append(cameraPending, currentFacingMode')
    /\ lastOp' = "switchCamera"
    /\ UNCHANGED << captureVars, loadVars, srcObject, isMobileDevice,
                    errorMessage, userAgentMobile >>

ClickCaptureBefore(f) ==
    /\ Commit(onClickCaptureBefore(Store, isModelLoading, videoRef, f))
    /\ lastOp' = IF CaptureBeforeDisabled(Store, isModelLoading)
                 THEN "captureBefore.disabled" ELSE "captureBefore"
    /\ UNCHANGED << loadVars, cameraVars, errorMessage, userAgentMobile >>

ClickCaptureAfter(f) ==
    /\ CaptureAfterDisabled(Store, isModelLoading) \/ Len(cycles) < MaxCycles
    /\ Commit(onClickCaptureAfter(Store, isModelLoading, videoRef, f, model))
    /\ lastOp' = IF CaptureAfterDisabled(Store, isModelLoading)
                 THEN "captureAfter.disabled" ELSE "captureAfter"
    /\ UNCHANGED << loadVars, cameraVars, errorMessage, userAgentMobile >>

ClickReset ==
    /\ ~ResetDisabled(Store, isModelLoading)
    /\ Commit(reset(Store))
    /\ lastOp' = "reset"
    /\ UNCHANGED << loadVars, cameraVars, errorMessage, userAgentMobile >>

\* A live interval fires and calls updateSimilarityScore.
IntervalTick(f) ==
    /\ intervals # {}
    /\ Len(cycles) < MaxCycles
    /\ Commit(updateSimilarityScore(Store, videoRef, f))
    /\ lastOp' = "tick"
    /\ UNCHANGED << loadVars, cameraVars, errorMessage, userAgentMobile >>

\* model.predict(...).data() resolves for cycle i; without a model
\* model.predict throws.  The history tells a score written by the oldest
\* cycle in flight from one written by a cycle that started after another
\* still in flight.
EmbeddingResolve(i) ==
    /\ i \in 1..Len(cycles)
    /\ model = "loaded"
    /\ Commit(embeddingResolved(Store, i))
    /\ lastOp' = IF cycles[i].stage = 1 THEN "embeddingResolved"
                 ELSE IF i = 1 THEN "scoreWritten"
                 ELSE "scoreWritten.overtaking"
    /\ UNCHANGED << loadVars, cameraVars, errorMessage, userAgentMobile >>

EmbeddingReject(i) ==
    /\ i \in 1..Len(cycles)
    /\ Commit(embeddingRejected(Store, i))
    /\ lastOp' = "embeddingRejected"
    /\ UNCHANGED << loadVars, cameraVars, errorMessage, userAgentMobile >>

Next ==
    \/ LoadModelResolve
    \/ LoadModelReject
    \/ \E i \in 1..MaxPending : GetUserMediaResolve(i)
    \/ \E i \in 1..MaxPending : GetUserMediaReject(i)
    \/ ClickSwitchCamera
    \/ \E f \in Frames : ClickCaptureBefore(f)
    \/ \E f \in Frames : ClickCaptureAfter(f)
    \/ ClickReset
    \/ \E f \in Frames : IntervalTick(f)
    \/ \E i \in 1..MaxCycles : EmbeddingResolve(i)
    \/ \E i \in 1..MaxCycles : EmbeddingReject(i)

Spec == Init /\ [][Next]_vars

\* The promise of tf.loadLayersModel settles: the fetch it wraps either
\* answers or fails.
FairSpec == Spec /\ WF_vars(LoadModelResolve \/ LoadModelReject)

\* ----------------------------------------------------------------- claims
IsLive(S) ==
    /\ S.before = Null
    /\ S.after = Null
    /\ S.similarity = Zero
    /\ S.showLiveFeed

\* C1: the state right after reset() has no before frame, no after frame,
\* similarity 0 and the live feed shown; and from every reachable state,
\* whatever the phase and the cycles in flight, reset() yields such a state.
C1_ResetYieldsLive ==
    /\ lastOp = "reset" => IsLive(Store)
    /\ IsLive(reset(Store))

\* reset() has run from AfterCaptured while the cycle started by
\* captureAfter() was still in flight and a score had been written.
C1_Witness ==
    /\ lastOp = "reset"
    /\ \E i \in 1..Len(cycles) : cycles[i].afterStored

CaptureBeforeOps == {"captureBefore", "captureBefore.disabled"}
CaptureAfterOps == {"captureAfter", "captureAfter.disabled"}

\* C2: a click on Capture Before while a before frame is stored changes
\* nothing of the capture state: the stored before frame stays the first
\* one, and the after frame, the similarity, the phase, the interval and
\* the cycles in flight are as they were.
C2_CaptureBeforeKeepsFirst ==
    [][(lastOp' \in CaptureBeforeOps /\ beforeImageCapture # Null)
         => UNCHANGED captureVars]_vars

C2_Witness ==
    /\ lastOp = "captureBefore.disabled"
    /\ beforeImageCapture # Null
    /\ afterImageCapture = Null

\* C3: while no before frame is stored, captureAfter() returns the state
\* it was given, for every frame the video may show and with the model
\* loaded or not; so does a click on Capture After.
C3_CaptureAfterInLiveNoOp ==
    beforeImageCapture = Null =>
        \A f \in Frames : \A vref \in BOOLEAN : \A mdl \in {"unset", "loaded"} :
            /\ captureAfter(Store, vref, f, mdl) = Store
            /\ onClickCaptureAfter(Store, isModelLoading, vref, f, mdl) = Store

C3_Witness ==
    /\ lastOp = "captureAfter.disabled"
    /\ beforeImageCapture = Null
    /\ model = "loaded"
    /\ videoRef

\* C4: no interval is live in a state where no before frame is stored or
\* the live feed is hidden, the states right after captureAfter() and
\* reset() included, and every tick fires in a state with a before frame,
\* no after frame and the live feed shown.
C4_NoTickAfterExit ==
    /\ [](beforeImageCapture = Null \/ ~showLiveFeed => intervals = {})
    /\ [][lastOp' = "tick" =>
            /\ beforeImageCapture # Null
            /\ afterImageCapture = Null
            /\ showLiveFeed]_vars

\* captureAfter() has succeeded while an interval was live.
C4_Witness ==
    /\ lastOp = "captureAfter"
    /\ afterImageCapture # Null
    /\ lastIntervalId # 0
    /\ intervals = {}

\* C5: while the model is unset (still loading, or the load has failed),
\* a click on Capture Before or Capture After leaves the capture state
\* unchanged, so no before frame is ever stored without a model.
C5_CaptureRefusedWithoutModel ==
    [][(lastOp' \in CaptureBeforeOps \cup CaptureAfterOps /\ model = "unset")
         => UNCHANGED captureVars]_vars

\* C6: the model load ends: isModelLoading becomes false and, once false,
\* stays false; a failed load sets errorMessage to the load-error text,
\* and the model handle, unset at that point, stays unset.
C6_LoadingEnds ==
    /\ <>[](~isModelLoading)
    /\ [][~isModelLoading => ~isModelLoading']_vars
    /\ [][lastOp' = "loadModelRejected" =>
            /\ errorMessage' = LoadError
            /\ errorMessage' # ""
            /\ ~isModelLoading'
            /\ model' = "unset"]_vars
    /\ [][(~loadPending /\ model = "unset") => model' = "unset"]_vars

C6_Witness ==
    /\ lastOp = "loadModelRejected"
    /\ ~isModelLoading
    /\ errorMessage = LoadError
    /\ model = "unset"

\* C7: a step in which an embedding of a scoring cycle is rejected leaves
\* similarity, errorMessage, the stored frames, showLiveFeed and the live
\* interval as they were; and errorMessage changes only in a step in which
\* the model load or a camera acquisition fails.
C7_FailedCycleWritesNothing ==
    /\ [][lastOp' = "embeddingRejected" =>
            UNCHANGED << similarity, errorMessage, beforeImageCapture,
                         afterImageCapture, showLiveFeed, intervals, cleanupId,
                         lastIntervalId >>]_vars
    /\ [][errorMessage' # errorMessage =>
            lastOp' \in {"loadModelRejected", "getUserMediaRejected"}]_vars

\* An embedding of a cycle has been rejected while an earlier score was
\* held and the interval was live.
C7_Witness ==
    /\ lastOp = "embeddingRejected"
    /\ similarity # Zero
    /\ intervals # {}
    /\ model = "loaded"

CameraOps == {"switchCamera", "getUserMediaResolved", "getUserMediaRejected"}

\* C8: switchCamera() sets the facing mode to the other of its two values
\* and starts an acquisition with it; neither that step nor the success or
\* failure of an acquisition changes the stored frames, similarity,
\* showLiveFeed, or the interval (same id live, none cleared or created).
C8_SwitchCameraKeepsCapture ==
    /\ [][lastOp' \in CameraOps =>
            UNCHANGED << beforeImageCapture, afterImageCapture, similarity,
                         showLiveFeed, intervals, cleanupId, lastIntervalId,
                         cycles >>]_vars
    /\ [][lastOp' = "switchCamera" =>
            /\ currentFacingMode' \in {"user", "environment"} \ {currentFacingMode}
            /\ cameraPending' = Append(cameraPending, currentFacingMode')]_vars

\* The acquisition started by a switch has succeeded while a before frame
\* was stored, a score held and the interval live.
C8_Witness ==
    /\ lastOp = "getUserMediaResolved"
    /\ srcObject = "environment"
    /\ currentFacingMode = "environment"
    /\ beforeImageCapture # Null
    /\ similarity # Zero
    /\ intervals # {}

ScoreGt(s, n, d) == ~IsNaN(s) /\ ~ScoreLeq(s, n, d)

\* C9: whenever the indicator is rendered, its colour is red for a score
\* <= 0.5, amber for 0.5 < score <= 0.7 and green for score > 0.7, and it
\* is green only for a score greater than 0.7.
C9_BandPartition ==
    beforeImageCapture # Null =>
        /\ ScoreLeq(similarity, 1, 2) => BandColor(similarity) = "#d93025"
        /\ (ScoreGt(similarity, 1, 2) /\ ScoreLeq(similarity, 7, 10))
              => BandColor(similarity) = "#f9ab00"
        /\ ScoreGt(similarity, 7, 10) <=> BandColor(similarity) = "#1e8e3e"

\* C10 as stated: every cycle in flight started with a before frame stored
\* and no after frame stored.
C10_CycleStartsBeforeFreeze ==
    \A i \in 1..Len(cycles) :
        /\ cycles[i].before # Null
        /\ ~cycles[i].afterStored

\* C10, amended: every cycle started with a before frame stored and the
\* live feed shown; a tick starts its cycle with no after frame stored;
\* the cycle captureAfter() starts is started from BeforeCaptured, after
\* captureAfter() has stored the after frame.
C10_CycleStartsWhileLive ==
    /\ [](\A i \in 1..Len(cycles) : cycles[i].before # Null /\ cycles[i].liveFeed)
    /\ [][lastOp' = "tick" =>
            /\ beforeImageCapture # Null
            /\ afterImageCapture = Null
            /\ showLiveFeed
            /\ Len(cycles') = Len(cycles) + 1
            /\ ~cycles'[Len(cycles')].afterStored]_vars
    /\ [][(lastOp' = "captureAfter" /\ cycles' # cycles) =>
            /\ beforeImageCapture # Null
            /\ afterImageCapture = Null
            /\ showLiveFeed
            /\ cycles' = Append(cycles, cycles'[Len(cycles')])
            /\ cycles'[Len(cycles')].afterStored
            /\ cycles'[Len(cycles')].before = beforeImageCapture]_vars

\* A cycle started by a tick and the cycle started by captureAfter() are
\* in flight together.
C10_Witness ==
    /\ lastOp = "captureAfter"
    /\ Len(cycles) = 2
    /\ ~cycles[1].afterStored
    /\ cycles[2].afterStored

\* C11: a click on Capture After while an after frame is stored changes
\* nothing of the capture state (the after frame is kept, no cycle is
\* started), and a click on Capture After changes the capture state only
\* from BeforeCaptured.
C11_CaptureAfterOnlyFromBefore ==
    /\ [][(lastOp' \in CaptureAfterOps /\ afterImageCapture # Null)
            => UNCHANGED captureVars]_vars
    /\ [][(lastOp' \in CaptureAfterOps /\ captureVars' # captureVars)
            => (beforeImageCapture # Null /\ afterImageCapture = Null)]_vars

C11_Witness ==
    /\ lastOp = "captureAfter.disabled"
    /\ afterImageCapture # Null
    /\ model = "loaded"

ScoreWrittenOps == {"scoreWritten", "scoreWritten.overtaking"}

ScoreOf(c) == cosineSimilarity(EmbeddingOf(c.before), EmbeddingOf(c.current))

\* C12: a tick starts a cycle whatever cycles are in flight; a cycle that
\* resolves its second embedding writes its own score, whichever cycles
\* started before or after it are still in flight; and similarity changes
\* in no other step than such a resolution or reset().
C12_LastResolvedWins ==
    /\ [][lastOp' \in ScoreWrittenOps =>
            \E i \in 1..Len(cycles) :
                /\ cycles[i].stage = 2
                /\ cycles' = RemoveAt(cycles, i)
                /\ similarity' = ScoreOf(cycles[i])]_vars
    /\ [][similarity' # similarity => lastOp' \in ScoreWrittenOps \cup {"reset"}]_vars
    /\ [][lastOp' = "tick" => cycles' = Append(cycles, cycles'[Len(cycles')])]_vars

\* Two cycles started by ticks were in flight; the one started second has
\* resolved first and written its score, which differs from the score the
\* one started first, still in flight, will write.
C12_Witness ==
    /\ lastOp = "scoreWritten.overtaking"
    /\ Len(cycles) = 1
    /\ afterImageCapture = Null
    /\ ~cycles[1].afterStored
    /\ similarity # ScoreOf(cycles[1])

\* C13: in every state with a cycle in flight, whatever await it hangs at:
\* Reset and Switch Camera are enabled as without it; a click on Capture
\* After from BeforeCaptured with the model loaded stores the after frame,
\* hides the live feed, clears the interval and starts its cycle behind
\* the ones in flight; reset() yields Live and leaves the cycles alone; a
\* tick appends a cycle; and any cycle at its second await writes its own
\* score when it resolves, the others staying in flight.
C13_HungCycleBlocksNothing ==
    cycles # << >> =>
        /\ (beforeImageCapture # Null /\ ~isModelLoading) => ENABLED ClickReset
        /\ (~isModelLoading /\ isMobileDevice /\ Len(cameraPending) < MaxPending)
              => ENABLED ClickSwitchCamera
        /\ IsLive(reset(Store)) /\ reset(Store).cycles = cycles
        /\ (beforeImageCapture # Null /\ afterImageCapture = Null
              /\ ~isModelLoading /\ model = "loaded") =>
              \A f \in Frames :
                 LET R == onClickCaptureAfter(Store, isModelLoading, videoRef, f, model)
                 IN /\ R.after = f
                    /\ ~R.showLiveFeed
                    /\ R.intervals = {}
                    /\ Len(R.cycles) = Len(cycles) + 1
                    /\ SubSeq(R.cycles, 1, Len(cycles)) = cycles
                    /\ R.cycles[Len(R.cycles)].current = f
        /\ intervals # {} =>
              \A f \in Frames :
                 LET R == updateSimilarityScore(Store, videoRef, f)
                 IN /\ Len(R.cycles) = Len(cycles) + 1
                    /\ SubSeq(R.cycles, 1, Len(cycles)) = cycles
                    /\ R.cycles[Len(R.cycles)].current = f
        /\ \A i \in 1..Len(cycles) :
              cycles[i].stage = 2 =>
                 LET R == embeddingResolved(Store, i)
                 IN /\ R.similarity = ScoreOf(cycles[i])
                    /\ R.cycles = RemoveAt(cycles, i)

\* A cycle started by a tick hangs at its first await; captureAfter() has
\* taken effect meanwhile, and the cycle it started has resolved and
\* written its score.
C13_Witness ==
    /\ lastOp = "scoreWritten.overtaking"
    /\ afterImageCapture # Null
    /\ Len(cycles) = 1
    /\ cycles[1].stage = 1
    /\ ~cycles[1].afterStored

C15_OnePhase ==
    /\ afterImageCapture # Null => beforeImageCapture # Null
    /\ ~showLiveFeed <=> afterImageCapture # Null

\* AfterCaptured entered a second time, after a reset, with cycles since
\* resolved.
C15_Witness ==
    /\ lastOp \in ScoreWrittenOps
    /\ afterImageCapture # Null
    /\ beforeImageCapture # Null
    /\ ~showLiveFeed
    /\ lastIntervalId = 2

\* C16: at most one interval is live; one is live exactly when a before
\* frame is stored and the live feed is shown; the live interval is the one
\* the effect's cleanup will clear; and replacing the before frame by
\* captureBefore() in any reachable state again leaves exactly the one
\* interval the cleanup will clear.
C16_OneInterval ==
    /\ Cardinality(intervals) <= 1
    /\ intervals # {} <=> (beforeImageCapture # Null /\ showLiveFeed)
    /\ intervals = IF cleanupId = 0 THEN {} ELSE {cleanupId}
    /\ \A f \in Frames :
          LET R == captureBefore(Store, videoRef, f)
          IN /\ Cardinality(R.intervals) <= 1
             /\ R.intervals = IF R.cleanupId = 0 THEN {} ELSE {R.cleanupId}
             /\ (showLiveFeed /\ videoRef) =>
                   (R.intervals # {} /\ R.intervals \cap intervals = {})

\* A second interval is live after the first was cleared by reset().
C16_Witness ==
    /\ lastOp = "captureBefore"
    /\ lastIntervalId = 2
    /\ intervals = {2}
    /\ cleanupId = 2

\* C17: whenever no before frame is stored, similarity is 0.
C17_LiveScoreIsZero ==
    beforeImageCapture = Null => similarity = Zero

\* The score of the before frame against the frame sampled at the freeze.
FreezeScore == cosineSimilarity(EmbeddingOf(beforeImageCapture),
                                EmbeddingOf(afterImageCapture))

\* C18: in AfterCaptured, once the cycle started by captureAfter() is no
\* longer in flight and similarity is the score of the before frame
\* against the after frame, a cycle started earlier by a tick that
\* resolves leaves similarity at that score.
C18_FreezeScoreStays ==
    [][(/\ afterImageCapture # Null
        /\ \A i \in 1..Len(cycles) : ~cycles[i].afterStored
        /\ similarity = FreezeScore
        /\ lastOp' \in ScoreWrittenOps)
         => similarity' = similarity]_vars

\* C19: once the model is loaded, no acquisition is pending and neither
\* task has failed, a stream is attached to the video element.
C19_StreamAttached ==
    (model = "loaded" /\ cameraPending = << >> /\ errorMessage = "")
        => srcObject # "none"

\* C20: when the last pending acquisition succeeds with the video element
\* rendered, no acquisition having failed, the stream attached is the one
\* acquired with the current facing mode.
C20_StreamHasCurrentFacingMode ==
    (/\ lastOp = "getUserMediaResolved"
     /\ videoRef
     /\ cameraPending = << >>
     /\ errorMessage # CameraError)
        => srcObject = currentFacingMode

====
